---- MODULE Spec2Model ----
(***************************************************************************)
(* Abuse-report routing of synapse/handlers/abuse_reports.py                *)
(* (AbuseReportHandler) as a state machine.  Every handler is cut at its    *)
(* await points: one action is the code that runs between two awaits.       *)
(* Collaborators (store, state handler, visibility filter, server notices,  *)
(* federation sender) are the environment; their answers are inputs.        *)
(* With it, the merge of a user's push rules with the server defaults of    *)
(* synapse/push/baserules.py (list_with_base_rules), a pure function of the *)
(* rules and of the module-level default lists.                             *)
(***************************************************************************)
EXTENDS Integers, Sequences, FiniteSets, TLC

----------------------------------------------------------------------------
(* Bounds of the model *)

\* number of handler invocations (report() calls and inbound EDUs) in a run
MaxCalls == 2

\* length of the list of rules handed to list_with_base_rules
MaxRules == 3

----------------------------------------------------------------------------
(* Identifiers.  An id string "@local:domain" / "!local:domain" is the pair *)
(* <<local, domain>>; a string without ":" is a 1-tuple.  The typed         *)
(* UserID / RoomID object is a record.                                      *)

hostname == "hs1"

Domains == {"hs1", "hs2", "hs3"}

from_string(s) ==
    IF Len(s) = 2
    THEN [ok |-> TRUE, localpart |-> s[1], domain |-> s[2]]
    ELSE [ok |-> FALSE, localpart |-> "", domain |-> ""]

to_string(id) == <<id.localpart, id.domain>>

UserOrder ==
    << <<"a", "hs1">>, <<"b", "hs1">>, <<"c", "hs2">>,
       <<"d", "hs2">>, <<"e", "hs3">> >>

UserStrings == {UserOrder[i] : i \in 1..Len(UserOrder)}

\* users that can call report(): requesters authenticated by this server
Reporters == {from_string(<<"r", "hs1">>)}

Room1 == <<"r1", "hs1">>
Room2 == <<"r2", "hs2">>
BadRoom == <<"r1">>

\* the rooms this server holds state of
KnownRooms == {Room1}

\* the store's events: event id -> id string of the room it is in
Events == [e \in {"e1"} |-> Room1]

\* event ids a caller may name: a stored event and an unknown one
EventIds == {"e1", "e3"}

ServerNoticeContentReport == "org.matrix.msc2938.notice.content_report"

EduTypes_ContentReport == "org.matrix.msc2938.content_report"

EventTypes_Message == "m.room.message"

----------------------------------------------------------------------------
(* State *)

VARIABLES
    power_levels,      \* state handler: room id string -> power-level state
    notices_enabled,   \* server_notices.is_enabled()
    federation_sender, \* self.federation_sender is set (line 38-40)
    send_federation,   \* hs.should_send_federation(), as it answers now
    call,              \* the invocation in progress, or the last one finished
    other,             \* a second invocation, suspended at an await, if any
    ncalls,            \* invocations started so far
    notices,           \* calls of server_notices.send_notice, in order
    edus,              \* calls of federation_sender.build_and_send_edu
    reports,           \* calls of store.add_event_report
    baserules,         \* synapse.push.baserules: what calls have written
                       \* into its module-level lists (rule_id -> rule)
    listing            \* the last call of list_with_base_rules

\* call is a record: id (its number), kind and args / edu (the entry point and
\* its arguments), pc (the await it is suspended at, "done" once it returned or
\* raised), result, and the handler's locals: room_id (typed), visible (the
\* visibility filter's answer), logged (the warning logged on a drop),
\* snapshots (the power-level states its get_moderators calls read),
\* event_content, moderators, groups (moderators_by_hs), enabled_seen (what
\* is_enabled() answered), gi / mi (position in the dispatch loops)

vars ==
    <<power_levels, notices_enabled, federation_sender, send_federation,
      call, other, ncalls, notices, edus, reports, baserules, listing>>

env == <<power_levels, notices_enabled, federation_sender, send_federation>>

logs == <<notices, edus, reports>>

push == <<baserules, listing>>

----------------------------------------------------------------------------
(* Power-level state: the content of the room's m.room.power_levels event, *)
(* or no event at all (present = FALSE).                                    *)

NoPowerLevels ==
    [present |-> FALSE, has_ban |-> FALSE, ban |-> 0, has_kick |-> FALSE,
     kick |-> 0, has_users |-> FALSE, users |-> <<>>]

PowerLevels(has_ban, ban, has_kick, kick, has_users, users) ==
    [present |-> TRUE, has_ban |-> has_ban, ban |-> ban, has_kick |-> has_kick,
     kick |-> kick, has_users |-> has_users, users |-> users]

Max(a, b) == IF a >= b THEN a ELSE b

\* a moderator level that takes the lower of the two thresholds
ModeratorLevelMin(pl) ==
    LET ban_level == IF pl.has_ban THEN pl.ban ELSE 50
        kick_level == IF pl.has_kick THEN pl.kick ELSE 50
    IN  IF ban_level <= kick_level THEN ban_level ELSE kick_level

\* line 251-253: the level from which a member is a moderator
ModeratorLevel(pl) ==
    LET ban_level == IF pl.has_ban THEN pl.ban ELSE 50
        kick_level == IF pl.has_kick THEN pl.kick ELSE 50
    IN  Max(ban_level, kick_level)

\* results of a call: a returned value or a raised exception
Returned(v) ==
    [kind |-> "returned", value |-> v, status |-> 0, errcode |-> "", msg |-> ""]

Raised(exc, status, errcode, msg) ==
    [kind |-> exc, value |-> <<>>, status |-> status, errcode |-> errcode,
     msg |-> msg]

Pending == [kind |-> "pending", value |-> <<>>, status |-> 0, errcode |-> "", msg |-> ""]

None == <<>>

\* 200, {} : the status and the empty JSON object
EmptySuccess == <<200, {}>>

NoModerators ==
    Raised("SynapseError", 404, "M_NOT_FOUND",
           "This room doesn't seem to have moderators")

\* line 174-178: the event is in another room
CannotFindEvent ==
    Raised("SynapseError", 404, "M_NOT_FOUND", "Cannot find event")

\* an error that tells the reporter the event is there but hidden
EventForbidden ==
    Raised("SynapseError", 403, "M_FORBIDDEN", "Cannot see event")

\* line 185-189: the event is not visible to the reporter
EventNotVisible ==
    Raised("SynapseError", 404, "M_NOT_FOUND", "Cannot find event")

\* line 251-259: the members at or above the moderator level, in the
\* iteration order of the users mapping; KeyError without a users mapping
ModeratorsOf(pl) ==
    IF ~pl.has_users
    THEN [result |-> Raised("KeyError", 0, "", "users"), moderators |-> <<>>]
    ELSE LET chosen == SelectSeq(UserOrder,
                           LAMBDA u : u \in DOMAIN pl.users
                                      /\ pl.users[u] >= ModeratorLevel(pl))
         IN  [result |-> Returned(None),
              moderators |-> [i \in 1..Len(chosen) |-> from_string(chosen[i])]]

\* a resolution that answers a room without power levels with no moderator
get_moderators_or_nobody(pl) ==
    IF ~pl.present
    THEN [result |-> Returned(None), moderators |-> <<>>]
    ELSE ModeratorsOf(pl)

\* a resolution that keeps the moderators of the power-level state another
\* invocation read, if there is one
get_moderators_cached(pl) ==
    LET cached == IF other.snapshots # <<>> THEN other.snapshots[1] ELSE pl
    IN  IF ~cached.present
        THEN [result |-> NoModerators, moderators |-> <<>>]
        ELSE ModeratorsOf(cached)

\* line 237-259: the outcome of get_moderators on the power-level state the
\* state handler answered with: the exception raised, or the list returned
get_moderators(pl) ==
    IF ~pl.present
    THEN [result |-> NoModerators, moderators |-> <<>>]
    ELSE ModeratorsOf(pl)

\* the power-level states the environment of the handler may hold
PLAll ==
    PowerLevels(TRUE, 50, TRUE, 50, TRUE,
                [u \in UserStrings |-> IF u[1] \in {"a", "d"} THEN 100 ELSE 50])

PLSome ==
    PowerLevels(FALSE, 0, TRUE, 75, TRUE,
                [u \in UserStrings \ {<<"d", "hs2">>} |->
                    IF u[1] = "c" THEN 100 ELSE IF u[1] = "e" THEN 75
                    ELSE IF u[1] = "b" THEN 50 ELSE 0])

PLNoUsers == PowerLevels(TRUE, 50, FALSE, 0, FALSE, <<>>)

PLChoices == {NoPowerLevels, PLAll, PLSome, PLNoUsers}

----------------------------------------------------------------------------
(* Inputs of the two entry points *)

NoUser == [ok |-> FALSE, localpart |-> "", domain |-> ""]

RequiredParams == {"reason", "score"}

Targets == {"absent", "homeserver-admins", "room-moderators", "other"}

\* report(user_id, body, room_id, event_id, reason, score, nature); body is
\* the set of required keys it holds, its target and its other keys (extra)
ReportArgs ==
    [user_id : Reporters,
     body : [keys : SUBSET RequiredParams, target : Targets, extra : {{}}],
     room_id : {Room1, Room2, BadRoom},
     event_id : EventIds,
     reason : {"spam"},
     score : {-100},
     nature : {"m.abuse.spam"}]

NoArgs ==
    [user_id |-> NoUser,
     body |-> [keys |-> {}, target |-> "absent", extra |-> {}],
     room_id |-> <<>>, event_id |-> "", reason |-> "", score |-> 0,
     nature |-> ""]

EduFields == {"room_id", "event_id", "reporter_id", "score", "reason"}

\* the shapes of an inbound EDU: every field present, or one missing
EduKeySets == {EduFields} \cup {EduFields \ {f} : f \in {"reporter_id", "score"}}

\* on_receive_report_through_federation(origin, edu_content); edu_content is
\* the set of expected keys it holds, their values and its other keys (extra)
EduArgs ==
    [origin : Domains \ {hostname},
     keys : EduKeySets,
     room_id : {Room1, Room2},
     event_id : EventIds,
     reporter_id : {<<"c", "hs2">>, <<"c">>},
     score : {-100},
     reason : {"spam"},
     extra : {{}}]

NoEdu ==
    [origin |-> "", keys |-> {}, room_id |-> <<>>, event_id |-> "",
     reporter_id |-> <<>>, score |-> 0, reason |-> "", extra |-> {}]

----------------------------------------------------------------------------
(* synapse/push/baserules.py.  A rule is a record: rule_id, conditions,     *)
(* actions, priority_class, and for a server default the key default.  The  *)
(* conditions and the actions of a rule are kept as the name of their       *)
(* owner: the code copies them and never looks into them.                   *)

\* synapse.push.rulekinds, imported at line 15: the kinds and their classes
PRIORITY_CLASS_MAP ==
    [underride |-> 1, sender |-> 2, room |-> 3, content |-> 4, override |-> 5]

PRIORITY_CLASS_INVERSE_MAP ==
    [c \in {PRIORITY_CLASS_MAP[k] : k \in DOMAIN PRIORITY_CLASS_MAP} |->
        CHOOSE k \in DOMAIN PRIORITY_CLASS_MAP : PRIORITY_CLASS_MAP[k] = c]

\* dict.keys() of a dict with small integer keys: a list, in rising order
RECURSIVE keys_of(_)
keys_of(d) ==
    IF DOMAIN d = {} THEN <<>>
    ELSE LET top == CHOOSE c \in DOMAIN d : \A e \in DOMAIN d : e <= c
         IN  Append(keys_of([c \in DOMAIN d \ {top} |-> d[c]]), top)

\* an entry of a default list as the module leaves it at line 306-324
BaseRule(rule_id, kind) ==
    [rule_id |-> rule_id,
     conditions |-> <<"conditions", rule_id>>,
     actions |-> <<"actions", rule_id>>,
     priority_class |-> PRIORITY_CLASS_MAP[kind],
     default |-> TRUE]

\* line 114-134
BASE_APPEND_CONTENT_RULES ==
    <<BaseRule("global/content/.m.rule.contains_user_name", "content")>>

\* line 137-146
BASE_PREPEND_OVERRIDE_RULES ==
    <<BaseRule("global/override/.m.rule.master", "override")>>

\* line 149-184
BASE_APPEND_OVRRIDE_RULES ==
    <<BaseRule("global/override/.m.rule.suppress_notices", "override"),
      BaseRule("global/override/.m.rule.member_event", "override")>>

\* line 187-301
BASE_APPEND_UNDERRIDE_RULES ==
    <<BaseRule("global/underride/.m.rule.call", "underride"),
      BaseRule("global/underride/.m.rule.contains_display_name", "underride"),
      BaseRule("global/underride/.m.rule.room_one_to_one", "underride"),
      BaseRule("global/underride/.m.rule.invite_for_me", "underride"),
      BaseRule("global/underride/.m.rule.message", "underride")>>

\* the module-level lists once the module is loaded
BaseRules ==
    [BASE_APPEND_CONTENT_RULES |-> BASE_APPEND_CONTENT_RULES,
     BASE_PREPEND_OVERRIDE_RULES |-> BASE_PREPEND_OVERRIDE_RULES,
     BASE_APPEND_OVRRIDE_RULES |-> BASE_APPEND_OVRRIDE_RULES,
     BASE_APPEND_UNDERRIDE_RULES |-> BASE_APPEND_UNDERRIDE_RULES]

\* nothing written into the module-level lists
Unmodified == [rule_id \in {} |-> <<>>]

\* line 30-32: rule_id -> the last rule of rawrules with that id and a
\* negative priority_class
modified_base_rules(rawrules) ==
    LET at == {i \in 1..Len(rawrules) : rawrules[i].priority_class < 0}
    IN  [id \in {rawrules[i].rule_id : i \in at} |->
            rawrules[CHOOSE i \in at :
                        /\ rawrules[i].rule_id = id
                        /\ \A j \in at : rawrules[j].rule_id = id => j <= i]]

\* line 36
UserRules(rawrules) == SelectSeq(rawrules, LAMBDA r : r.priority_class >= 0)

\* a loop that takes the whole modified rule for the default
ModifyWhole(rules, modified) ==
    [i \in 1..Len(rules) |->
        IF rules[i].rule_id \in DOMAIN modified
        THEN modified[rules[i].rule_id]
        ELSE rules[i]]

\* line 88-92, 105-109: the actions of a modified rule replace the actions
\* of the default with its rule_id
Modify(rules, modified) ==
    [i \in 1..Len(rules) |->
        IF rules[i].rule_id \in DOMAIN modified
        THEN [rules[i] EXCEPT !.actions = modified[rules[i].rule_id].actions]
        ELSE rules[i]]

\* the module-level lists as they are once the modified rules written were
\* written into them
ModuleLists(written) ==
    [l \in DOMAIN BaseRules |-> Modify(BaseRules[l], written)]

\* a loop that works on the module-level lists themselves: what it writes
\* is written into them, over what was written before
ModifiedInPlace(written, modified) ==
    [rule_id \in DOMAIN written \cup DOMAIN modified |->
        IF rule_id \in DOMAIN modified THEN modified[rule_id]
        ELSE written[rule_id]]

\* line 87, 104: the loop works on a deep copy of the module-level list;
\* nothing is written into the module-level lists
AfterDeepCopy(written, modified) == written

\* line 79-84: the module-level list for a kind
AppendRulesOf(base, kind) ==
    IF kind = "override" THEN base.BASE_APPEND_OVRRIDE_RULES
    ELSE IF kind = "underride" THEN base.BASE_APPEND_UNDERRIDE_RULES
    ELSE IF kind = "content" THEN base.BASE_APPEND_CONTENT_RULES
    ELSE <<>>

\* line 76-94
make_base_append_rules(base, kind, modified) ==
    Modify(AppendRulesOf(base, kind), modified)

\* line 100-101
PrependRulesOf(base, kind) ==
    IF kind = "override" THEN base.BASE_PREPEND_OVERRIDE_RULES ELSE <<>>

\* line 97-111
make_base_prepend_rules(base, kind, modified) ==
    Modify(PrependRulesOf(base, kind), modified)

\* line 47-57 and line 61-71: while floor < current_prio_class, the appended
\* defaults of the class, then the prepended ones of the class below
RECURSIVE Descend(_, _, _, _, _)
Descend(base, modified, floor, current_prio_class, ruleslist) ==
    IF ~(floor < current_prio_class)
    THEN [current_prio_class |-> current_prio_class, ruleslist |-> ruleslist]
    ELSE LET appended ==
                 ruleslist \o make_base_append_rules(
                     base, PRIORITY_CLASS_INVERSE_MAP[current_prio_class],
                     modified)
             below == current_prio_class - 1
         IN  Descend(base, modified, floor, below,
                     IF below > 0
                     THEN appended \o make_base_prepend_rules(
                              base, PRIORITY_CLASS_INVERSE_MAP[below],
                              modified)
                     ELSE appended)

\* line 45-73: the loop over the user's rules, then the classes left
RECURSIVE MergeFrom(_, _, _, _, _)
MergeFrom(base, modified, rules, current_prio_class, ruleslist) ==
    IF rules = <<>>
    THEN Descend(base, modified, 0, current_prio_class, ruleslist).ruleslist
    ELSE LET r == Head(rules)
             d == Descend(base, modified, r.priority_class, current_prio_class,
                          ruleslist)
         IN  MergeFrom(base, modified, Tail(rules), d.current_prio_class,
                       Append(d.ruleslist, r))

\* a start from the lowest class
FirstKey(d) == keys_of(d)[1]

\* line 39: PRIORITY_CLASS_INVERSE_MAP.keys()[-1]
LastKey(d) == keys_of(d)[Len(keys_of(d))]

\* line 19-73
list_with_base_rules(base, rawrules) ==
    LET modified == modified_base_rules(rawrules)
        current_prio_class == LastKey(PRIORITY_CLASS_INVERSE_MAP)
    IN  MergeFrom(base, modified, UserRules(rawrules), current_prio_class,
                  make_base_prepend_rules(
                      base, PRIORITY_CLASS_INVERSE_MAP[current_prio_class],
                      modified))

\* no call of list_with_base_rules yet
NoListing == [calls |-> 0, rawrules |-> <<>>, ruleslist |-> <<>>]

----------------------------------------------------------------------------
(* Invocations *)

NoContent == [body |-> ""]

IdleCall ==
    [id |-> 0, kind |-> "idle", pc |-> "idle", args |-> NoArgs, edu |-> NoEdu,
     room_id |-> NoUser, visible |-> "unasked", logged |-> "",
     snapshots |-> <<>>, event_content |-> NoContent, moderators |-> <<>>,
     groups |-> <<>>, enabled_seen |-> "unread", gi |-> 0, mi |-> 0,
     result |-> Pending]

Init ==
    /\ power_levels \in [KnownRooms -> PLChoices]
    /\ notices_enabled \in BOOLEAN
    /\ send_federation \in BOOLEAN
    /\ federation_sender = send_federation
    /\ call = IdleCall
    /\ other = IdleCall
    /\ ncalls = 0
    /\ notices = <<>>
    /\ edus = <<>>
    /\ reports = <<>>
    /\ baserules = Unmodified
    /\ listing = NoListing

\* the handler is free: a new invocation may start
CanStart == call.pc \in {"idle", "done"} /\ ncalls < MaxCalls

Finish(c, res) == [c EXCEPT !.pc = "done", !.result = res]

----------------------------------------------------------------------------
(* Collaborators *)

\* the NotFound of the store: the not-found error of the interface, which
\* tells nothing more than "not found"
StoreNotFound ==
    Raised("SynapseError", 404, "M_NOT_FOUND", "Cannot find event")

\* store.get_event(event_id, allow_none): the event's room, None, or NotFound
StoreGetEvent(event_id, allow_none) ==
    IF event_id \in DOMAIN Events
    THEN [result |-> Returned(None), found |-> TRUE, room_id |-> Events[event_id]]
    ELSE IF allow_none
    THEN [result |-> Returned(None), found |-> FALSE, room_id |-> <<>>]
    ELSE [result |-> StoreNotFound, found |-> FALSE, room_id |-> <<>>]

\* one call of server_notices.send_notice (line 220-224, 317-321)
Notice(c, moderator_id) ==
    [call |-> c.id, via |-> c.kind, user_id |-> to_string(moderator_id),
     type |-> EventTypes_Message, event_content |-> c.event_content]

\* a notice log that drops a notice already sent to the same user with the
\* same content
SendNoticesOnce(log, new) ==
    log \o SelectSeq(new, LAMBDA n :
                 \A i \in 1..Len(log) :
                    ~(log[i].user_id = n.user_id
                      /\ log[i].event_content = n.event_content))

\* the notices sent so far, after the calls new of send_notice
SendNotices(log, new) == log \o new

\* one call of federation_sender.build_and_send_edu (line 231-235)
Edu(c, hs) ==
    [call |-> c.id, via |-> c.kind, destination |-> hs, edu_type |-> EduTypes_ContentReport,
     content |-> c.event_content]

\* an is_mine that takes every user for a local one
IsMineAlways(id) == TRUE

\* hs.is_mine(user id), line 316
is_mine(id) == id.domain = hostname

\* state.get_current_state(room, PowerLevels, ""), line 240-242: the event the
\* state handler holds for the room, none for a room it holds no state of
CurrentPowerLevels(room) ==
    IF room \in DOMAIN power_levels THEN power_levels[room] ELSE NoPowerLevels

----------------------------------------------------------------------------
(* report(): lines 75-106, up to the first await of the path taken *)

MissingParams ==
    Raised("SynapseError", 400, "M_MISSING_PARAM", "Missing params")

InvalidRoomId ==
    Raised("SynapseError", 400, "M_INVALID_PARAM", "Expected RoomID string")

BadTarget ==
    Raised("SynapseError", 400, "M_BAD_JSON",
           "Optional param 'target' must be one of ['homeserver-admins', 'room-moderators']")

\* a default target that sends a report without target to the moderators
TargetOfDefaultModerators(body) ==
    IF body.target = "absent" THEN "room-moderators" ELSE body.target

\* line 78: body.get("org.matrix.msc2938.target", "homeserver-admins")
TargetOf(body) ==
    IF body.target = "absent" THEN "homeserver-admins" ELSE body.target

\* a routing that takes every unrecognized target for the administrators'
RouteLenient(body) ==
    IF TargetOf(body) = "room-moderators" THEN "room-moderators"
    ELSE "homeserver-admins"

\* line 80-106: the branch taken for a body
Route(body) ==
    IF TargetOf(body) = "room-moderators" THEN "room-moderators"
    ELSE IF TargetOf(body) = "homeserver-admins" THEN "homeserver-admins"
    ELSE "invalid"

\* line 131-138: the call of store.add_event_report
EventReport(c) ==
    [call |-> c.id, room_id |-> to_string(c.room_id),
     event_id |-> c.args.event_id, user_id |-> to_string(c.args.user_id),
     reason |-> c.args.reason, content |-> c.args.body]

\* a routing in which both paths record the report in the store
AddEventReportsOnBothPaths(c, target) == <<EventReport(c)>>

\* line 80-100: the calls of store.add_event_report of the path taken: one
\* on the path of the admins (line 131), none on the moderators'
AddEventReports(c, target) ==
    IF target = "homeserver-admins" THEN <<EventReport(c)>> ELSE <<>>

Report(a) ==
    /\ CanStart
    /\ ncalls' = ncalls + 1
    /\ LET typed_room_id == from_string(a.room_id)
           c == [IdleCall EXCEPT !.id = ncalls + 1, !.kind = "report",
                                 !.args = a, !.room_id = typed_room_id]
       IN  IF ~typed_room_id.ok
           THEN call' = Finish(c, InvalidRoomId) /\ UNCHANGED reports
           ELSE IF ~(RequiredParams \subseteq a.body.keys)
           THEN call' = Finish(c, MissingParams) /\ UNCHANGED reports
           ELSE IF Route(a.body) = "room-moderators"
           THEN /\ call' = [c EXCEPT !.pc = "get_event"]
                /\ reports' = reports \o AddEventReports(c, "room-moderators")
           ELSE IF Route(a.body) = "homeserver-admins"
           THEN /\ call' = [c EXCEPT !.pc = "add_event_report"]
                /\ reports' = reports \o AddEventReports(c, "homeserver-admins")
           ELSE call' = Finish(c, BadTarget) /\ UNCHANGED reports
    /\ UNCHANGED <<push, other, env, notices, edus>>

\* _report_to_homeserver_admin, line 131-140: the store answers
AddEventReportReturns(ok) ==
    /\ call.pc = "add_event_report"
    /\ call' = IF ok THEN Finish(call, Returned(EmptySuccess))
               ELSE Finish(call, Raised("StorageError", 500, "", "add_event_report"))
    /\ UNCHANGED <<push, other, env, ncalls, logs>>

----------------------------------------------------------------------------
(* _report_to_room_moderators: lines 171-235 *)

\* a room check that accepts an event of any room
RoomMismatchNever(event_room_id, room_id) == FALSE

\* line 173, 291: the event is not in the room the report names
RoomMismatch(event_room_id, room_id) == event_room_id # room_id

\* line 172-183: the store answers get_event; the room is compared
GetEventReturns ==
    /\ call.pc = "get_event"
    /\ LET event == StoreGetEvent(call.args.event_id, FALSE)
       IN  call' = IF event.result.kind # "returned"
                   THEN Finish(call, event.result)
                   ELSE IF RoomMismatch(event.room_id, to_string(call.room_id))
                   THEN Finish(call, CannotFindEvent)
                   ELSE [call EXCEPT !.pc = "filter_events"]
    /\ UNCHANGED <<push, other, env, ncalls, logs>>

\* a visibility check that lets a filtered event through
FilteredOutNever(visible) == FALSE

\* line 184: len(events) == 0
FilteredOut(visible) == ~visible

\* line 181-191: filter_events_for_client answers with the event or nothing
FilterEventsReturns(visible) ==
    /\ call.pc = "filter_events"
    /\ LET c == [call EXCEPT !.visible = IF visible THEN "yes" ELSE "no"]
       IN  call' = IF FilteredOut(visible)
                   THEN Finish(c, EventNotVisible)
                   ELSE [c EXCEPT !.pc = "get_moderators"]
    /\ UNCHANGED <<push, other, env, ncalls, logs>>

\* line 193-202
LocalEventContent(c) ==
    [body |-> "User has reported content",
     msgtype |-> ServerNoticeContentReport,
     room_id |-> to_string(c.room_id),
     event_id |-> c.args.event_id,
     user_id |-> to_string(c.args.user_id),
     score |-> c.args.score,
     reason |-> c.args.reason,
     nature |-> c.args.nature]

\* line 191-206: the first get_moderators answers; the payload is built and
\* get_moderators is called again
GetModeratorsReturns ==
    /\ call.pc = "get_moderators"
    /\ LET pl == CurrentPowerLevels(to_string(call.room_id))
           r == get_moderators(pl)
           c == [call EXCEPT !.snapshots = Append(@, pl)]
       IN  call' = IF r.result.kind # "returned"
                   THEN Finish(c, r.result)
                   ELSE [c EXCEPT !.moderators = r.moderators,
                                  !.event_content = LocalEventContent(call),
                                  !.pc = "get_moderators_again"]
    /\ UNCHANGED <<push, other, env, ncalls, logs>>

\* line 207: the key under which a moderator is grouped
GroupKey(user_id, moderator) == user_id.domain

\* line 205-212: moderators_by_hs, as the list of its items in insertion order
RECURSIVE GroupByHs(_, _, _)
GroupByHs(user_id, mods, acc) ==
    IF mods = <<>> THEN acc
    ELSE LET moderator == Head(mods)
             hs == GroupKey(user_id, moderator)
             at == {i \in 1..Len(acc) : acc[i].hs = hs}
         IN  IF at = {}
             THEN GroupByHs(user_id, Tail(mods),
                            Append(acc, [hs |-> hs, moderators |-> <<moderator>>]))
             ELSE GroupByHs(user_id, Tail(mods),
                            [acc EXCEPT ![CHOOSE i \in at : TRUE].moderators =
                                            Append(@, moderator)])

\* line 215-235, from group gi on, up to the next await (a send_notice) or
\* the end of the loop; out are the EDUs sent on the way
RECURSIVE Dispatch(_, _, _)
Dispatch(c, gi, out) ==
    IF gi > Len(c.groups)
    THEN [call |-> Finish(c, Returned(None)), edus |-> out, notices |-> <<>>]
    ELSE LET g == c.groups[gi]
         IN  IF hostname = g.hs
             THEN IF notices_enabled
                  THEN [call |-> [c EXCEPT !.pc = "send_notice", !.gi = gi,
                                           !.mi = 1, !.enabled_seen = "yes"],
                        edus |-> out,
                        notices |-> <<Notice(c, g.moderators[1])>>]
                  ELSE Dispatch([c EXCEPT !.enabled_seen = "no"], gi + 1, out)
             ELSE IF federation_sender
             THEN Dispatch(c, gi + 1, Append(out, Edu(c, g.hs)))
             ELSE Dispatch(c, gi + 1, out)

\* line 206-235: the second get_moderators answers; grouping, then dispatch
GetModeratorsAgainReturns ==
    /\ call.pc = "get_moderators_again"
    /\ LET pl == CurrentPowerLevels(to_string(call.room_id))
           r == get_moderators(pl)
           c == [call EXCEPT !.snapshots = Append(@, pl)]
           d == Dispatch([c EXCEPT !.groups = GroupByHs(call.args.user_id,
                                                        r.moderators, <<>>)],
                         1, <<>>)
       IN  IF r.result.kind # "returned"
           THEN call' = Finish(c, r.result) /\ UNCHANGED <<notices, edus>>
           ELSE /\ call' = d.call
                /\ notices' = SendNotices(notices, d.notices)
                /\ edus' = edus \o d.edus
    /\ UNCHANGED <<push, other, env, ncalls, reports>>

\* line 219-224: a send_notice answers; the next moderator, the next group
SendNoticeReturns(ok) ==
    /\ call.pc = "send_notice"
    /\ LET g == call.groups[call.gi]
           d == Dispatch(call, call.gi + 1, <<>>)
       IN  IF ~ok
           THEN /\ call' = Finish(call, Raised("Exception", 0, "", "send_notice"))
                /\ UNCHANGED <<notices, edus>>
           ELSE IF call.mi < Len(g.moderators)
           THEN /\ call' = [call EXCEPT !.mi = call.mi + 1]
                /\ notices' = SendNotices(notices,
                       <<Notice(call, g.moderators[call.mi + 1])>>)
                /\ UNCHANGED edus
           ELSE /\ call' = d.call
                /\ notices' = SendNotices(notices, d.notices)
                /\ edus' = edus \o d.edus
    /\ UNCHANGED <<push, other, env, ncalls, reports>>

----------------------------------------------------------------------------
(* on_receive_report_through_federation: lines 261-321 *)

\* line 264-268: the pops of the five fields, in this order
PopOrder == <<"room_id", "event_id", "reporter_id", "score", "reason">>

\* the first field whose pop raises KeyError, "" when every field is there
FirstMissing(keys) ==
    LET missing == {i \in 1..Len(PopOrder) : PopOrder[i] \notin keys}
    IN  IF missing = {} THEN ""
        ELSE PopOrder[CHOOSE i \in missing : \A j \in missing : i <= j]

InvalidId == Raised("SynapseError", 400, "M_UNKNOWN", "Invalid ID")

\* a payload that forwards the other keys of the EDU
FederatedEventContentForwarding(e) ==
    [body |-> "User has reported content",
     msgtype |-> ServerNoticeContentReport,
     room_id |-> e.room_id,
     event_id |-> e.event_id,
     reporter_id |-> e.reporter_id,
     score |-> e.score,
     reason |-> e.reason,
     extra |-> e.extra]

\* line 303-311
FederatedEventContent(e) ==
    [body |-> "User has reported content",
     msgtype |-> ServerNoticeContentReport,
     room_id |-> e.room_id,
     event_id |-> e.event_id,
     reporter_id |-> e.reporter_id,
     score |-> e.score,
     reason |-> e.reason]

\* a sender check that believes every origin
SenderMismatchNever(reporter, origin) == FALSE

\* line 275: get_domain_from_id(reporter_id) != origin
SenderMismatch(reporter, origin) == reporter.domain # origin

\* line 264-283
OnReceiveReport(e) ==
    /\ CanStart
    /\ ncalls' = ncalls + 1
    /\ LET c == [IdleCall EXCEPT !.id = ncalls + 1, !.kind = "edu", !.edu = e]
           reporter == from_string(e.reporter_id)
       IN  call' =
             IF FirstMissing(e.keys) # ""
             THEN Finish(c, Raised("KeyError", 0, "", FirstMissing(e.keys)))
             ELSE IF ~reporter.ok
             THEN Finish(c, InvalidId)
             ELSE IF SenderMismatch(reporter, e.origin)
             THEN Finish([c EXCEPT !.logged = "user is not of the origin"],
                         Returned(None))
             ELSE [c EXCEPT !.pc = "fed_get_event"]
    /\ UNCHANGED <<push, other, env, logs>>

\* line 283-314: the store answers get_event(allow_none=True)
FedGetEventReturns ==
    /\ call.pc = "fed_get_event"
    /\ LET event == StoreGetEvent(call.edu.event_id, TRUE)
       IN  call' =
             IF ~event.found
             THEN Finish([call EXCEPT !.logged = "no such event"], Returned(None))
             ELSE IF RoomMismatch(event.room_id, call.edu.room_id)
             THEN Finish([call EXCEPT !.logged = "room is not the event's room"],
                         Returned(None))
             ELSE [call EXCEPT !.event_content = FederatedEventContent(call.edu),
                               !.pc = "fed_get_moderators"]
    /\ UNCHANGED <<push, other, env, ncalls, logs>>

\* line 315-321, from moderator i on: the next moderator of this server gets
\* a notice (an await), or the loop ends
FedDispatch(c, i) ==
    LET mine == {j \in i..Len(c.moderators) : is_mine(c.moderators[j])}
        next == CHOOSE j \in mine : \A k \in mine : j <= k
    IN  IF mine = {}
        THEN [call |-> Finish(c, Returned(None)), notices |-> <<>>]
        ELSE [call |-> [c EXCEPT !.pc = "fed_send_notice", !.mi = next],
              notices |-> <<Notice(c, c.moderators[next])>>]

\* line 314-321: get_moderators answers
FedGetModeratorsReturns ==
    /\ call.pc = "fed_get_moderators"
    /\ LET pl == CurrentPowerLevels(call.edu.room_id)
           r == get_moderators(pl)
           c == [call EXCEPT !.snapshots = Append(@, pl)]
           d == FedDispatch([c EXCEPT !.moderators = r.moderators], 1)
       IN  IF r.result.kind # "returned"
           THEN call' = Finish(c, r.result) /\ UNCHANGED notices
           ELSE call' = d.call /\ notices' = SendNotices(notices, d.notices)
    /\ UNCHANGED <<push, other, env, ncalls, edus, reports>>

\* line 317-321: a send_notice answers
FedSendNoticeReturns(ok) ==
    /\ call.pc = "fed_send_notice"
    /\ LET d == FedDispatch(call, call.mi + 1)
       IN  IF ~ok
           THEN /\ call' = Finish(call, Raised("Exception", 0, "", "send_notice"))
                /\ UNCHANGED notices
           ELSE call' = d.call /\ notices' = SendNotices(notices, d.notices)
    /\ UNCHANGED <<push, other, env, ncalls, edus, reports>>

----------------------------------------------------------------------------
(* The environment: room state and configuration change under the handler *)

SetPowerLevels(room, pl) ==
    /\ power_levels[room] # pl
    /\ power_levels' = [power_levels EXCEPT ![room] = pl]
    /\ UNCHANGED <<notices_enabled, federation_sender, send_federation, call,
                   other, ncalls, logs, push>>

SetNoticesEnabled(b) ==
    /\ notices_enabled # b
    /\ notices_enabled' = b
    /\ UNCHANGED <<power_levels, federation_sender, send_federation, call,
                   other, ncalls, logs, push>>

\* the server's setting for outbound federation changes; the handler, built
\* before, keeps the federation_sender of line 38-40
SetSendFederation(b) ==
    /\ send_federation # b
    /\ send_federation' = b
    /\ UNCHANGED <<power_levels, notices_enabled, federation_sender, call,
                   other, ncalls, logs, push>>

Next ==
    \/ \E a \in ReportArgs : Report(a)
    \/ \E ok \in BOOLEAN : AddEventReportReturns(ok)
    \/ GetEventReturns
    \/ \E visible \in BOOLEAN : FilterEventsReturns(visible)
    \/ GetModeratorsReturns
    \/ GetModeratorsAgainReturns
    \/ \E ok \in BOOLEAN : SendNoticeReturns(ok)
    \/ \E e \in EduArgs : OnReceiveReport(e)
    \/ FedGetEventReturns
    \/ FedGetModeratorsReturns
    \/ \E ok \in BOOLEAN : FedSendNoticeReturns(ok)
    \/ \E room \in KnownRooms, pl \in PLChoices : SetPowerLevels(room, pl)
    \/ \E b \in BOOLEAN : SetNoticesEnabled(b)

Spec == Init /\ [][Next]_vars

----------------------------------------------------------------------------
(* get_moderators on its own, over a wide range of power-level states *)

LevelChoices == {0, 50, 100}

WideUsers == {<<"a", "hs1">>, <<"c", "hs2">>, <<"e", "hs3">>}

ThresholdChoices ==
    {[has |-> FALSE, level |-> 0]} \cup
    {[has |-> TRUE, level |-> l] : l \in LevelChoices}

UsersChoices == UNION {[S -> LevelChoices] : S \in SUBSET WideUsers}

WidePowerLevels ==
    {PowerLevels(b.has, b.level, k.has, k.level, TRUE, us) :
        b \in ThresholdChoices, k \in ThresholdChoices, us \in UsersChoices}
    \cup {NoPowerLevels, PLNoUsers}

InitModerators ==
    /\ power_levels \in [KnownRooms -> WidePowerLevels]
    /\ notices_enabled = TRUE
    /\ send_federation = TRUE
    /\ federation_sender = send_federation
    /\ call = IdleCall
    /\ other = IdleCall
    /\ ncalls = 0
    /\ notices = <<>>
    /\ edus = <<>>
    /\ reports = <<>>
    /\ baserules = Unmodified
    /\ listing = NoListing

\* get_moderators(room_id), line 237-259, called on its own
GetModeratorsCall(room) ==
    /\ call.pc = "idle"
    /\ ncalls' = ncalls + 1
    /\ LET pl == CurrentPowerLevels(room)
           r == get_moderators(pl)
       IN  call' = Finish([IdleCall EXCEPT !.id = ncalls + 1,
                                           !.kind = "get_moderators",
                                           !.room_id = from_string(room),
                                           !.snapshots = <<pl>>,
                                           !.moderators = r.moderators],
                          r.result)
    /\ UNCHANGED <<push, other, env, logs>>

NextModerators == \E room \in KnownRooms : GetModeratorsCall(room)

SpecModerators == InitModerators /\ [][NextModerators]_vars

----------------------------------------------------------------------------
(* Valid reports and valid EDUs that hold keys the handler does not know *)

ExtraKeySets == {{}, {"org.example.injected"}}

PayloadReportArgs ==
    [user_id : Reporters,
     body : [keys : {RequiredParams},
             target : {"homeserver-admins", "room-moderators"},
             extra : ExtraKeySets],
     room_id : {Room1},
     event_id : {"e1"},
     reason : {"spam"},
     score : {-100},
     nature : {"m.abuse.spam"}]

PayloadEduArgs ==
    [origin : {"hs2"},
     keys : {EduFields},
     room_id : {Room1},
     event_id : {"e1"},
     reporter_id : {<<"c", "hs2">>},
     score : {-100},
     reason : {"spam"},
     extra : ExtraKeySets]

NextPayload ==
    \/ \E a \in PayloadReportArgs : Report(a)
    \/ \E ok \in BOOLEAN : AddEventReportReturns(ok)
    \/ GetEventReturns
    \/ \E visible \in BOOLEAN : FilterEventsReturns(visible)
    \/ GetModeratorsReturns
    \/ GetModeratorsAgainReturns
    \/ \E ok \in BOOLEAN : SendNoticeReturns(ok)
    \/ \E e \in PayloadEduArgs : OnReceiveReport(e)
    \/ FedGetEventReturns
    \/ FedGetModeratorsReturns
    \/ \E ok \in BOOLEAN : FedSendNoticeReturns(ok)
    \/ \E room \in KnownRooms, pl \in PLChoices : SetPowerLevels(room, pl)
    \/ \E b \in BOOLEAN : SetNoticesEnabled(b)

SpecPayload == Init /\ [][NextPayload]_vars

----------------------------------------------------------------------------
(* Two invocations at a time: while one is suspended at an await, the event *)
(* loop runs the other, or starts a new one.                                *)

\* the event loop leaves the invocation that waits, or has ended, for the
\* other one
Switch ==
    /\ call.pc \notin {"idle", "done"} \/ other.pc \notin {"idle", "done"}
    /\ call' = other
    /\ other' = call
    /\ UNCHANGED <<push, env, ncalls, logs>>

ConcurrentReportArgs ==
    [user_id : Reporters,
     body : [keys : {RequiredParams}, target : {"room-moderators"},
             extra : {{}}],
     room_id : {Room1},
     event_id : {"e1"},
     reason : {"spam"},
     score : {-100},
     nature : {"m.abuse.spam"}]

ConcurrentEduArgs ==
    [origin : {"hs2"},
     keys : {EduFields},
     room_id : {Room1},
     event_id : {"e1"},
     reporter_id : {<<"c", "hs2">>},
     score : {-100},
     reason : {"spam"},
     extra : {{}}]

NextConcurrent ==
    \/ \E a \in ConcurrentReportArgs : Report(a)
    \/ GetEventReturns
    \/ \E visible \in BOOLEAN : FilterEventsReturns(visible)
    \/ GetModeratorsReturns
    \/ GetModeratorsAgainReturns
    \/ \E ok \in BOOLEAN : SendNoticeReturns(ok)
    \/ \E e \in ConcurrentEduArgs : OnReceiveReport(e)
    \/ FedGetEventReturns
    \/ FedGetModeratorsReturns
    \/ \E ok \in BOOLEAN : FedSendNoticeReturns(ok)
    \/ \E room \in KnownRooms, pl \in PLChoices : SetPowerLevels(room, pl)
    \/ \E b \in BOOLEAN : SetNoticesEnabled(b)
    \/ Switch

SpecConcurrent == Init /\ [][NextConcurrent]_vars

----------------------------------------------------------------------------
(* The handler under a configuration that changes after its construction *)

NextFlags ==
    \/ \E a \in ReportArgs : Report(a)
    \/ \E ok \in BOOLEAN : AddEventReportReturns(ok)
    \/ GetEventReturns
    \/ \E visible \in BOOLEAN : FilterEventsReturns(visible)
    \/ GetModeratorsReturns
    \/ GetModeratorsAgainReturns
    \/ \E ok \in BOOLEAN : SendNoticeReturns(ok)
    \/ \E e \in EduArgs : OnReceiveReport(e)
    \/ FedGetEventReturns
    \/ FedGetModeratorsReturns
    \/ \E ok \in BOOLEAN : FedSendNoticeReturns(ok)
    \/ \E room \in KnownRooms, pl \in PLChoices : SetPowerLevels(room, pl)
    \/ \E b \in BOOLEAN : SetNoticesEnabled(b)
    \/ \E b \in BOOLEAN : SetSendFederation(b)

SpecFlags == Init /\ [][NextFlags]_vars

----------------------------------------------------------------------------
(* list_with_base_rules on its own, over sorted lists of rules *)

\* a rule the user has set
UserRule(rule_id, priority_class) ==
    [rule_id |-> rule_id,
     conditions |-> <<"conditions", "user", rule_id>>,
     actions |-> <<"actions", "user", rule_id>>,
     priority_class |-> priority_class]

\* the rules a list is made of: rules of the user in three classes and in
\* class 0, and
\* modified base rules (priority_class -1) for three defaults and for a
\* rule_id that no default has
RuleChoices ==
    {UserRule("u1", PRIORITY_CLASS_MAP.override),
     UserRule("u3", PRIORITY_CLASS_MAP.content),
     UserRule("u4", PRIORITY_CLASS_MAP.underride),
     UserRule("u5", 0)}
    \cup {UserRule(id, -1) :
             id \in {"global/override/.m.rule.master",
                     "global/override/.m.rule.member_event",
                     "global/underride/.m.rule.message",
                     "global/underride/.m.rule.unknown"}}

\* the lists of at most MaxRules rules, by non-increasing priority_class
SortedRules ==
    {l \in UNION {[1..n -> RuleChoices] : n \in 0..MaxRules} :
        \A i \in 1..Len(l), j \in 1..Len(l) :
           i < j => l[i].priority_class >= l[j].priority_class}

InitRules ==
    /\ power_levels = [room \in KnownRooms |-> NoPowerLevels]
    /\ notices_enabled = FALSE
    /\ send_federation = FALSE
    /\ federation_sender = send_federation
    /\ call = IdleCall
    /\ other = IdleCall
    /\ ncalls = 0
    /\ notices = <<>>
    /\ edus = <<>>
    /\ reports = <<>>
    /\ baserules = Unmodified
    /\ listing = NoListing

\* one call of list_with_base_rules(rawrules), line 19-73
ListWithBaseRules(rawrules) ==
    /\ listing.calls < MaxCalls
    /\ listing' = [calls |-> listing.calls + 1,
                   rawrules |-> rawrules,
                   ruleslist |-> list_with_base_rules(ModuleLists(baserules),
                                                      rawrules)]
    /\ baserules' = AfterDeepCopy(baserules, modified_base_rules(rawrules))
    /\ UNCHANGED <<call, other, env, ncalls, logs>>

NextRules == \E rawrules \in SortedRules : ListWithBaseRules(rawrules)

SpecRules == InitRules /\ [][NextRules]_vars

----------------------------------------------------------------------------
(* Properties *)

NoticesBy(id) == {i \in 1..Len(notices) : notices[i].call = id}

EdusBy(id) == {i \in 1..Len(edus) : edus[i].call = id}

ReportsBy(id) == {i \in 1..Len(reports) : reports[i].call = id}

NoticesTo(id, u) == {i \in NoticesBy(id) : notices[i].user_id = u}

EdusTo(id, d) == {i \in EdusBy(id) : edus[i].destination = d}

\* the moderators the dispatch of call c grouped
GroupedModerators(c) ==
    UNION {{c.groups[i].moderators[j] : j \in 1..Len(c.groups[i].moderators)} :
             i \in 1..Len(c.groups)}

\* a report() call whose room id parses and whose body holds reason and score
WellFormedReport(c) ==
    /\ c.kind = "report"
    /\ Len(c.args.room_id) = 2
    /\ RequiredParams \subseteq c.args.body.keys

\* the event a call names is not in the store, or is in another room
EventMissingOrElsewhere(event_id, room_id) ==
    \/ event_id \notin DOMAIN Events
    \/ Events[event_id] # room_id

\* an inbound EDU that holds the five fields and a reporter id with a domain
WellFormedEdu(c) ==
    /\ c.kind = "edu"
    /\ c.edu.keys = EduFields
    /\ Len(c.edu.reporter_id) = 2

IsNotFound(res) ==
    res.kind = "SynapseError" /\ res.status = 404 /\ res.errcode = "M_NOT_FOUND"

\* C1: a room-moderators report that went through its dispatch, with server
\* notices enabled and a federation sender, has sent exactly one local notice
\* to every moderator of this server, none to a moderator of another server,
\* and exactly one EDU to every remote domain with a moderator.
C1_FanOutByModeratorDomain ==
    ( /\ WellFormedReport(call)
      /\ call.args.body.target = "room-moderators"
      /\ call.pc = "done"
      /\ call.result.kind = "returned"
      /\ call.enabled_seen # "no"
      /\ federation_sender )
    => /\ \A m \in GroupedModerators(call) :
            Cardinality(NoticesTo(call.id, to_string(m)))
                = IF m.domain = hostname THEN 1 ELSE 0
       /\ \A d \in Domains \ {hostname} :
            Cardinality(EdusTo(call.id, d))
                = IF \E m \in GroupedModerators(call) : m.domain = d
                  THEN 1 ELSE 0

\* the case of C2: a room-moderators report whose event is unknown, in another
\* room, or filtered out for the reporter
C2_Case ==
    /\ WellFormedReport(call)
    /\ call.args.body.target = "room-moderators"
    /\ \/ EventMissingOrElsewhere(call.args.event_id, call.args.room_id)
       \/ call.visible = "no"

C3_Case ==
    /\ call.kind = "report"
    /\ \E i \in 1..Len(call.snapshots) : ~call.snapshots[i].present

\* C3: when the room has no power-level state, the resolution of a report
\* fails with the 404 "no moderators" error, whose message differs from the
\* event-not-found one, and the report sends no local notice and no EDU.
C3_NoPowerLevelsNoModerators ==
    C3_Case
    => /\ call.pc = "done"
       /\ IsNotFound(call.result)
       /\ call.result.msg = "This room doesn't seem to have moderators"
       /\ call.result.msg # CannotFindEvent.msg
       /\ NoticesBy(call.id) = {}
       /\ EdusBy(call.id) = {}

C3_Witness == C3_Case /\ call.pc = "done" /\ Len(call.snapshots) = 2

\* {ban: 50, kick: 50, users: {A: 100, B: 50, C: 0}}
PLExample ==
    PowerLevels(TRUE, 50, TRUE, 50, TRUE,
                [u \in WideUsers |-> IF u[1] = "a" THEN 100
                                     ELSE IF u[1] = "c" THEN 50 ELSE 0])

\* the case of C4: get_moderators has answered for a power-level event that
\* holds a users mapping
C4_Case ==
    /\ call.kind = "get_moderators"
    /\ call.pc = "done"
    /\ call.snapshots[1].present
    /\ call.snapshots[1].has_users

\* C4: get_moderators returns exactly the users of the users mapping whose
\* level is at least both thresholds, ban and kick, each 50 when absent, every
\* such user once; for the example the result is exactly {A, B}.
C4_ModeratorsAtOrAboveBanAndKick ==
    C4_Case
    => LET pl == call.snapshots[1]
           ban == IF pl.has_ban THEN pl.ban ELSE 50
           kick == IF pl.has_kick THEN pl.kick ELSE 50
           got == {to_string(call.moderators[i]) : i \in 1..Len(call.moderators)}
       IN  /\ call.result.kind = "returned"
           /\ got = {u \in DOMAIN pl.users : pl.users[u] >= ban /\ pl.users[u] >= kick}
           /\ Cardinality(got) = Len(call.moderators)
           /\ pl = PLExample => got = {<<"a", "hs1">>, <<"c", "hs2">>}

C4_Witness ==
    /\ C4_Case
    /\ call.snapshots[1] = PLExample
    /\ Len(call.moderators) = 2

\* the case of C5: an inbound report whose reporter is not of the origin
C5_Case ==
    /\ WellFormedEdu(call)
    /\ call.edu.reporter_id[2] # call.edu.origin

\* C5: an inbound report (with its five fields) whose reporter id's domain is
\* not the origin is dropped at once: a warning is logged, the handler returns
\* None without raising, looks nothing up and sends no notice and no EDU.
C5_ForeignReporterDropped ==
    C5_Case
    => /\ call.pc = "done"
       /\ call.result = Returned(None)
       /\ call.logged # ""
       /\ call.snapshots = <<>>
       /\ NoticesBy(call.id) = {}
       /\ EdusBy(call.id) = {}

C5_Witness == C5_Case /\ call.pc = "done"

\* the case of C6: an inbound report of a reporter of the origin, for an event
\* that is unknown or in another room than the one named
C6_Case ==
    /\ WellFormedEdu(call)
    /\ call.edu.reporter_id[2] = call.edu.origin
    /\ EventMissingOrElsewhere(call.edu.event_id, call.edu.room_id)

\* C6: an inbound report (with its five fields) for an event that is unknown
\* here, or that is in another room than the named one, is dropped: a warning
\* is logged, the handler returns None without raising, resolves no moderator
\* and sends no notice and no EDU.
C6_UnknownEventDropped ==
    C6_Case
    => /\ call.pc \in {"fed_get_event", "done"}
       /\ call.pc = "done" => call.result = Returned(None) /\ call.logged # ""
       /\ call.snapshots = <<>>
       /\ NoticesBy(call.id) = {}
       /\ EdusBy(call.id) = {}

C6_Witness ==
    /\ C6_Case
    /\ call.pc = "done"
    /\ call.edu.event_id \in DOMAIN Events

\* C7: the handling of inbound reports never sends an EDU, and every notice it
\* sends goes to a user of this server.
C7_IngesterOnlyNotifiesLocally ==
    /\ \A i \in 1..Len(edus) : edus[i].via # "edu"
    /\ \A i \in 1..Len(notices) :
          notices[i].via = "edu" => notices[i].user_id[2] = hostname

C7_Witness ==
    /\ call.kind = "edu"
    /\ call.pc = "done"
    /\ \E m \in {call.moderators[j] : j \in 1..Len(call.moderators)} :
          m.domain # hostname
    /\ NoticesBy(call.id) # {}

\* the case of C8: a report with reason and score and no target, or the
\* target "homeserver-admins"
C8_Case ==
    /\ WellFormedReport(call)
    /\ call.args.body.target \in {"absent", "homeserver-admins"}

\* C8: a report with reason and score whose target is absent or
\* "homeserver-admins" is handed to the store exactly once, with the caller's
\* room, event, user and body, and the call looks up no event, asks no
\* visibility filter and reads no room state, whatever the event and the room.
C8_AdminReportRecordedOnce ==
    C8_Case
    => /\ Cardinality(ReportsBy(call.id)) = 1
       /\ \A i \in ReportsBy(call.id) :
             /\ reports[i].room_id = call.args.room_id
             /\ reports[i].event_id = call.args.event_id
             /\ reports[i].user_id = to_string(call.args.user_id)
             /\ reports[i].content = call.args.body
       /\ call.pc \in {"add_event_report", "done"}
       /\ call.visible = "unasked"
       /\ call.snapshots = <<>>

C8_Witness ==
    /\ C8_Case
    /\ call.args.body.target = "absent"
    /\ EventMissingOrElsewhere(call.args.event_id, call.args.room_id)
    /\ call.pc = "done"
    /\ call.result = Returned(EmptySuccess)

\* the case of C9: a report with an unrecognized target, or without reason or
\* score
C9_Case ==
    /\ call.kind = "report"
    /\ \/ call.args.body.target = "other"
       \/ ~(RequiredParams \subseteq call.args.body.keys)

C10_SuccessIsEmpty200 ==
    (call.kind = "report" /\ call.pc = "done" /\ call.result.kind = "returned")
    => call.result.value = EmptySuccess

----------------------------------------------------------------------------

LocalPayloadKeys ==
    {"body", "msgtype", "room_id", "event_id", "user_id", "score", "reason",
     "nature"}

FederatedPayloadKeys ==
    {"body", "msgtype", "room_id", "event_id", "reporter_id", "score",
     "reason"}

\* the payload call c would build, had its input held the other keys x
PayloadWithExtra(c, x) ==
    IF c.kind = "report"
    THEN LocalEventContent([c EXCEPT !.args.body.extra = x])
    ELSE FederatedEventContent([c.edu EXCEPT !.extra = x])

\* call c has built its payload
HasPayload(c) == c.kind \in {"report", "edu"} /\ c.event_content # NoContent

\* C11: the payload delivered to moderators, by the dispatcher and by the
\* ingester, is rebuilt from the recognised fields only: it holds no key
\* outside the fixed key set, every delivery of a call carries the payload
\* the call built, and that payload is the same whatever other keys the
\* report body or the EDU holds.
C11_PayloadRebuiltFromRecognisedFields ==
    /\ \A i \in 1..Len(notices) :
          DOMAIN notices[i].event_content
             = IF notices[i].via = "report" THEN LocalPayloadKeys
               ELSE FederatedPayloadKeys
    /\ \A i \in 1..Len(edus) : DOMAIN edus[i].content = LocalPayloadKeys
    /\ HasPayload(call) =>
          /\ \A x \in ExtraKeySets :
                PayloadWithExtra(call, x) = call.event_content
          /\ \A i \in NoticesBy(call.id) :
                notices[i].event_content = call.event_content
          /\ \A i \in EdusBy(call.id) :
                edus[i].content = call.event_content

\* an EDU that holds an unknown key has led to a notice, after a report did
C11_Witness ==
    /\ call.kind = "edu"
    /\ call.edu.extra # {}
    /\ NoticesBy(call.id) # {}
    /\ \E i \in 1..Len(notices) :
          notices[i].via = "report" /\ notices[i].call # call.id

----------------------------------------------------------------------------

\* a report() call whose dispatch loop (line 215-235) has started and which
\* has ended
DispatchEnded(c) ==
    /\ c.kind = "report"
    /\ c.pc = "done"
    /\ Len(c.snapshots) = 2
    /\ get_moderators(c.snapshots[2]).result.kind = "returned"

\* C12: on the room-moderators path a failed delivery is isolated: a call
\* whose dispatch loop has started returns, whatever its send_notice calls
\* answered, and when the notices were enabled every moderator of its groups
\* has had a send_notice call.
C12_DeliveryFailureIsolated ==
    DispatchEnded(call) =>
        /\ call.result.kind = "returned"
        /\ call.enabled_seen = "yes" =>
              \A m \in GroupedModerators(call) :
                 NoticesTo(call.id, to_string(m)) # {}

----------------------------------------------------------------------------

\* a room-moderators report that has ended
ModeratorsReportEnded(c) ==
    /\ WellFormedReport(c)
    /\ c.args.body.target = "room-moderators"
    /\ c.pc = "done"

----------------------------------------------------------------------------

\* C14: the ingester never raises: whatever the EDU holds and whatever the
\* state of the room, on_receive_report_through_federation returns, after
\* dropping the message or after the local delivery.
C14_IngesterNeverRaises ==
    (call.kind = "edu" /\ call.pc = "done") => call.result.kind = "returned"

----------------------------------------------------------------------------

\* the domains other than this server's with a moderator in the dispatch of c
RemoteDomains(c) ==
    {m.domain : m \in {x \in GroupedModerators(c) : x.domain # hostname}}

\* C15: a room-moderators report dispatched while the server notices are
\* disabled sends no local notice, raises nothing and returns, and the
\* remote groups are processed as usual: with a federation sender, every
\* remote domain with a moderator is sent its EDU.
C15_NoticesDisabledIsSilent ==
    (DispatchEnded(call) /\ call.enabled_seen = "no")
    => /\ NoticesBy(call.id) = {}
       /\ call.result.kind = "returned"
       /\ federation_sender =>
             \A d \in RemoteDomains(call) : EdusTo(call.id, d) # {}

----------------------------------------------------------------------------

\* C16: a room-moderators report dispatched without a federation sender
\* sends no EDU and returns (unless a send_notice raised); with a federation
\* sender, every remote domain with a moderator is sent an EDU of type
\* content_report that carries the rebuilt payload.
C16_FederationGatesEdus ==
    DispatchEnded(call)
    => /\ ~federation_sender =>
             /\ EdusBy(call.id) = {}
             /\ call.result.kind = "returned" \/ call.result.msg = "send_notice"
       /\ (federation_sender /\ call.result.kind = "returned") =>
             \A d \in RemoteDomains(call) :
                \E i \in EdusTo(call.id, d) :
                   /\ edus[i].edu_type = EduTypes_ContentReport
                   /\ edus[i].content = LocalEventContent(call)

----------------------------------------------------------------------------

\* C17: there is no deduplication: every accepted report to the admins adds
\* one entry to the store, and every room-moderators report that went
\* through its dispatch with the notices enabled sends one notice to each
\* of its recipients, whatever entries and notices earlier calls left.
C17_NoDeduplication ==
    /\ ( /\ WellFormedReport(call)
         /\ Route(call.args.body) = "homeserver-admins" )
       => Cardinality(ReportsBy(call.id)) = 1
    /\ ( /\ DispatchEnded(call)
         /\ call.result.kind = "returned"
         /\ call.enabled_seen = "yes" )
       => \A m \in GroupedModerators(call) :
             Cardinality(NoticesTo(call.id, to_string(m))) = 1

\* the same report was dispatched twice and one moderator holds two notices
\* with the same content, one of each call
C17_Witness ==
    /\ DispatchEnded(call)
    /\ call.result.kind = "returned"
    /\ \E i \in NoticesBy(call.id), j \in 1..Len(notices) :
          /\ notices[j].call # call.id
          /\ notices[j].user_id = notices[i].user_id
          /\ notices[j].event_content = notices[i].event_content

----------------------------------------------------------------------------

\* the moderators of the power-level state the last resolution of c read
OwnModerators(c) ==
    LET pl == c.snapshots[Len(c.snapshots)]
    IN  IF c.snapshots = <<>> \/ ~pl.present \/ ~pl.has_users THEN {}
        ELSE LET mods == ModeratorsOf(pl).moderators
             IN  {to_string(mods[i]) : i \in 1..Len(mods)}

\* the users invocation c has sent a notice to
NotifiedBy(c) == {notices[i].user_id : i \in NoticesBy(c.id)}

\* invocation c went through its deliveries: a dispatch that found the
\* notices enabled, or an ingestion
Delivered(c) ==
    /\ c.pc = "done"
    /\ c.result.kind = "returned"
    /\ \/ c.kind = "report" /\ c.enabled_seen = "yes"
       \/ c.kind = "edu" /\ c.moderators # <<>>

\* C18: the moderator set is not cached across calls: each invocation, the
\* running one and the suspended one, sends notices to none but the
\* moderators of the power-level state its own resolution read and EDUs to
\* none but their domains, and once through its deliveries it has notified
\* every such moderator of this server, whatever the other invocation read.
C18_ModeratorsOfOwnSnapshot ==
    \A c \in {call, other} :
       c.kind \in {"report", "edu"} =>
          /\ NotifiedBy(c) \subseteq OwnModerators(c)
          /\ \A i \in EdusBy(c.id) :
                \E u \in OwnModerators(c) : u[2] = edus[i].destination
          /\ Delivered(c) =>
                {u \in OwnModerators(c) : u[2] = hostname}
                   \subseteq NotifiedBy(c)

\* two invocations that read different power-level states, with different
\* moderators, have both gone through their deliveries, the one that read
\* first ending last
C18_Witness ==
    /\ Delivered(call)
    /\ Delivered(other)
    /\ call.id < other.id
    /\ OwnModerators(call) # OwnModerators(other)
    /\ NotifiedBy(call) # {}
    /\ NotifiedBy(other) # {}
    /\ NotifiedBy(call) # NotifiedBy(other)

----------------------------------------------------------------------------

\* C19: the dispatcher and the ingester agree on the format of the EDU: the
\* payload a dispatch builds, which is the content of the EDUs it sends,
\* holds every field the ingester pops from an inbound EDU, so that the
\* ingester of the destination does not raise on it.
C19_EduFormatAgreed ==
    (call.kind = "report" /\ call.event_content # NoContent)
    => FirstMissing(DOMAIN call.event_content) = ""

----------------------------------------------------------------------------

\* C20: every send_notice call of the handler, from the dispatcher and from
\* the ingester, is for a user of this server.
C20_NoticesTargetLocalUsers ==
    \A i \in 1..Len(notices) : notices[i].user_id[2] = hostname

----------------------------------------------------------------------------

----------------------------------------------------------------------------

\* the step in which a dispatch starts its loop over the groups (line 215)
DispatchStarts ==
    /\ call.kind = "report"
    /\ call.pc = "get_moderators_again"
    /\ call'.id = call.id
    /\ call'.groups # <<>>

\* C22: the flags are read at each dispatch, not kept from the construction
\* of the handler or from an earlier dispatch: a dispatch sends its local
\* notices exactly when the server notices are enabled as it starts, and the
\* federation sender it tests is there exactly when the server sends
\* federation as it starts.
C22_FlagsReadAtDispatch ==
    [][DispatchStarts =>
          /\ notices' # notices <=> notices_enabled
          /\ federation_sender <=> send_federation]_vars

----------------------------------------------------------------------------

\* the moderators of the power-level state the first resolution of c read
FirstModerators(c) ==
    LET mods == ModeratorsOf(c.snapshots[1]).moderators
    IN  {to_string(mods[i]) : i \in 1..Len(mods)}

\* C23: a dispatch resolves its moderators from one power-level state: once
\* its resolution (line 191) has succeeded, it does not fail with the "no
\* moderators" error, and it notifies none but the moderators of that state
\* and, once through its deliveries, every one of them of this server.
C23_OneSnapshotPerDispatch ==
    (call.kind = "report" /\ Len(call.snapshots) = 2)
    => /\ call.result # NoModerators
       /\ NotifiedBy(call) \subseteq FirstModerators(call)
       /\ Delivered(call) =>
             {u \in FirstModerators(call) : u[2] = hostname}
                \subseteq NotifiedBy(call)

----------------------------------------------------------------------------

\* the inbound EDU that tells of the report of call c
EduOfReport(c) ==
    [origin |-> c.args.user_id.domain,
     keys |-> EduFields,
     room_id |-> to_string(c.room_id),
     event_id |-> c.args.event_id,
     reporter_id |-> to_string(c.args.user_id),
     score |-> c.args.score,
     reason |-> c.args.reason,
     extra |-> {}]

\* C24: a moderator gets the same content for the same report from the
\* dispatcher and from the ingester: the payload the dispatch builds is the
\* payload the ingester builds for the EDU of that report, field names and
\* values.
C24_SamePayloadOnBothPaths ==
    (call.kind = "report" /\ call.event_content # NoContent)
    => FederatedEventContent(EduOfReport(call)) = call.event_content

----------------------------------------------------------------------------

\* C25: the absence of the power-level event is the only failure of
\* get_moderators: for a room with a power-level event, with or without the
\* ban, kick and users keys, it returns a list and raises nothing.
C25_OnlyAbsentEventFails ==
    ( /\ call.kind = "get_moderators"
      /\ call.pc = "done"
      /\ call.snapshots[1].present )
    => call.result.kind = "returned"

----------------------------------------------------------------------------

\* the calls recorded in the store, and the calls that sent a notice or an EDU
Recorders == {reports[i].call : i \in 1..Len(reports)}

Senders ==
    {notices[i].call : i \in 1..Len(notices)}
       \cup {edus[i].call : i \in 1..Len(edus)}

\* C26: an accepted report follows one path and leaves the collaborators of
\* the other alone: a report to the admins sends no notice and no EDU and
\* reads no power levels; a report to the moderators and an ingestion record
\* nothing in the store; no call has both recorded and sent.
C26_PathsAreDisjoint ==
    /\ (WellFormedReport(call) /\ Route(call.args.body) = "homeserver-admins")
       => /\ NoticesBy(call.id) = {}
          /\ EdusBy(call.id) = {}
          /\ call.snapshots = <<>>
          /\ call.pc \in {"add_event_report", "done"}
    /\ ( \/ call.kind = "edu"
         \/ WellFormedReport(call) /\ Route(call.args.body) = "room-moderators" )
       => ReportsBy(call.id) = {}
    /\ Recorders \cap Senders = {}

\* a report to the admins was recorded after a report to the moderators, or
\* an ingestion, had sent its notices
C26_Witness ==
    /\ WellFormedReport(call)
    /\ Route(call.args.body) = "homeserver-admins"
    /\ call.result = Returned(EmptySuccess)
    /\ ReportsBy(call.id) # {}
    /\ Senders # {}

----------------------------------------------------------------------------

IsDefault(r) == "default" \in DOMAIN r

RuleIds(rules) == {rules[i].rule_id : i \in 1..Len(rules)}

PrependedIds == RuleIds(BASE_PREPEND_OVERRIDE_RULES)

AppendedIds ==
    RuleIds(BASE_APPEND_OVRRIDE_RULES) \cup RuleIds(BASE_APPEND_CONTENT_RULES)
       \cup RuleIds(BASE_APPEND_UNDERRIDE_RULES)

\* the places of the defaults with rule_id id in a list
DefaultsAt(rules, id) ==
    {i \in 1..Len(rules) : IsDefault(rules[i]) /\ rules[i].rule_id = id}

----------------------------------------------------------------------------

\* the server defaults in the order of their lists, as the module defines
\* them
PristineDefaults ==
    BASE_PREPEND_OVERRIDE_RULES \o BASE_APPEND_OVRRIDE_RULES
       \o BASE_APPEND_CONTENT_RULES \o BASE_APPEND_UNDERRIDE_RULES

\* the places in rawrules of the modified base rules with rule_id id
ModifiedAt(rawrules, id) ==
    {i \in 1..Len(rawrules) :
        rawrules[i].priority_class < 0 /\ rawrules[i].rule_id = id}

\* the default d as the user sees it: with the actions of the last modified
\* base rule of its rule_id, if there is one
Expected(rawrules, d) ==
    LET at == ModifiedAt(rawrules, d.rule_id)
    IN  IF at = {} THEN d
        ELSE [d EXCEPT !.actions =
                 rawrules[CHOOSE i \in at : \A j \in at : j <= i].actions]

====
